---- MODULE Spec2Model ----
(***************************************************************************)
(* A model of the crawl core of streamlit_app.py (class MultiPageScraper): *)
(* URL normalisation and filtering, subpage discovery, the page claim      *)
(* under the lock, and the breadth-first loop of scrape_website.           *)
(*                                                                         *)
(* A Python str is a sequence of one-character strings; a dict is a        *)
(* record; a list is a sequence; a set is a set.                           *)
(***************************************************************************)
EXTENDS Integers, Sequences, FiniteSets, TLC

(***************************************************************************)
(* Bounds of the model.                                                    *)
(***************************************************************************)
\* longest tail appended to a URL prefix when normalize_url is explored
MaxTail == 4
\* largest max_pages a scraper is constructed with
MaxPagesBound == 3
\* largest max_depth a scraper is constructed with
MaxDepthBound == 2
\* most anchors on one fetched page of a crawl
MaxLinks == 2
\* most anchors on the page handed to find_subpages when it is explored alone
MaxAnchors == 2
\* number of concurrent workers calling scrape_single_page
NumWorkers == 2
\* length of the address list given to deduplicate_addresses
MaxAddresses == 12
\* max_pages of the scraper whose progress computation is explored alone
MaxProgressPages == 22

(***************************************************************************)
(* Python strings.                                                         *)
(***************************************************************************)
\* the characters the model's strings use, in code point order
Chars ==
  << " ", "#", "(", ")", "+", "-", ".", "/",
     "0", "1", "2", "3", "4", "5", "6", "7", "8", "9", ":", "@",
     "A", "B", "C", "D", "E", "F", "G", "H", "I", "J", "K", "L", "M",
     "N", "O", "P", "Q", "R", "S", "T", "U", "V", "W", "X", "Y", "Z",
     "a", "b", "c", "d", "e", "f", "g", "h", "i", "j", "k", "l", "m",
     "n", "o", "p", "q", "r", "s", "t", "u", "v", "w", "x", "y", "z" >>

CharSet == {Chars[i] : i \in 1..Len(Chars)}

\* ord(c), up to an order-preserving renumbering
Ord == [c \in CharSet |-> CHOOSE i \in 1..Len(Chars) : Chars[i] = c]

IsUpper(c) == Ord[c] >= Ord["A"] /\ Ord[c] <= Ord["Z"]

IsAlpha(c) == Ord[c] >= Ord["A"]

IsDigit(c) == Ord[c] >= Ord["0"] /\ Ord[c] <= Ord["9"]

LowerChar == [c \in CharSet |-> IF IsUpper(c) THEN Chars[Ord[c] + 26] ELSE c]

\* str.lower()
lower(s) == [i \in 1..Len(s) |-> LowerChar[s[i]]]

\* str.find(c) + 1: the first position of character c in s, 0 when absent
Find(s, c) ==
  IF \E i \in 1..Len(s) : s[i] = c
  THEN CHOOSE i \in 1..Len(s) : s[i] = c /\ \A j \in 1..(i - 1) : s[j] # c
  ELSE 0

\* s[i:] with i counted from 1
Tail_from(s, i) == SubSeq(s, i, Len(s))

startswith(s, p) == Len(s) >= Len(p) /\ SubSeq(s, 1, Len(p)) = p

endswith(s, p) == Len(s) >= Len(p) /\ SubSeq(s, Len(s) - Len(p) + 1, Len(s)) = p

\* p in s
contains(p, s) == \E i \in 0..(Len(s) - Len(p)) : SubSeq(s, i + 1, i + Len(p)) = p

\* a < b on str: lexicographic by code point
StrLess(a, b) ==
  \E i \in 1..(Len(a) + 1) :
     /\ i <= Len(b)
     /\ \A j \in 1..(i - 1) : a[j] = b[j]
     /\ (i = Len(a) + 1 \/ Ord[a[i]] < Ord[b[i]])

Min(a, b) == IF a < b THEN a ELSE b

(***************************************************************************)
(* urllib.parse, as far as the scraper uses it.  "?" and ";" are not among *)
(* Chars, so the query and the params of every URL are empty and left out. *)
(***************************************************************************)
HTTP == <<"h", "t", "t", "p">>

MAILTO == <<"m", "a", "i", "l", "t", "o">>

\* the schemes of urllib's uses_netloc / uses_relative that the model spells
uses_netloc == {<<>>, HTTP, <<"h", "t", "t", "p", "s">>, <<"f", "t", "p">>}

uses_relative == uses_netloc

scheme_chars == {c \in CharSet : IsAlpha(c) \/ IsDigit(c) \/ c \in {"+", "-", "."}}

\* url[:i] is a scheme: i > 0, url[0] a letter, every character a scheme character
has_scheme(url, i) ==
  /\ i > 1
  /\ IsAlpha(url[1])
  /\ \A k \in 1..(i - 1) : url[k] \in scheme_chars

\* the scheme and what follows its ":", i being the position of the first ":"
split_scheme(url, scheme0, i) ==
  IF has_scheme(url, i)
  THEN [scheme |-> lower(SubSeq(url, 1, i - 1)), rest |-> Tail_from(url, i + 1)]
  ELSE [scheme |-> scheme0, rest |-> url]

\* _splitnetloc(url, 2): where the netloc of "//netloc..." ends
netloc_end(rest) ==
  LET delims == {k \in 3..Len(rest) : rest[k] \in {"/", "#"}}
  IN  IF delims = {} THEN Len(rest) + 1
      ELSE CHOOSE k \in delims : \A m \in delims : k <= m

split_netloc(rest, delim) ==
  IF startswith(rest, <<"/", "/">>)
  THEN [netloc |-> SubSeq(rest, 3, delim - 1), rest |-> Tail_from(rest, delim)]
  ELSE [netloc |-> <<>>, rest |-> rest]

\* url.split('#', 1), j being the position of the first "#"
split_fragment(scheme, netloc, rest, j) ==
  [scheme   |-> scheme,
   netloc   |-> netloc,
   path     |-> IF j > 0 THEN SubSeq(rest, 1, j - 1) ELSE rest,
   fragment |-> IF j > 0 THEN Tail_from(rest, j + 1) ELSE <<>>]

urlparse_netloc(scheme, n) == split_fragment(scheme, n.netloc, n.rest, Find(n.rest, "#"))

urlparse_scheme(s) == urlparse_netloc(s.scheme, split_netloc(s.rest, netloc_end(s.rest)))

\* urlsplit(url, scheme): <scheme>://<netloc><path>#<fragment>
urlparse(url, scheme0) == urlparse_scheme(split_scheme(url, scheme0, Find(url, ":")))

\* whether urlunsplit writes "//" and the netloc
with_netloc(scheme, netloc, path) ==
  \/ netloc # <<>>
  \/ (scheme # <<>> /\ scheme \in uses_netloc /\ ~startswith(path, <<"/", "/">>))

add_netloc(netloc, path) ==
  <<"/", "/">> \o netloc
     \o (IF path # <<>> /\ path[1] # "/" THEN <<"/">> \o path ELSE path)

add_scheme(scheme, url) == IF scheme # <<>> THEN scheme \o <<":">> \o url ELSE url

add_fragment(url, fragment) == IF fragment # <<>> THEN url \o <<"#">> \o fragment ELSE url

\* urlunsplit((scheme, netloc, path, '', fragment))
urlunparse(scheme, netloc, path, fragment) ==
  add_fragment(add_scheme(scheme, IF with_netloc(scheme, netloc, path)
                                  THEN add_netloc(netloc, path)
                                  ELSE path),
               fragment)

urlunparse_without_fragment(p) == urlunparse(p.scheme, p.netloc, p.path, <<>>)

\* urldefrag(url)[0]
urldefrag(url) ==
  IF Find(url, "#") > 0 THEN urlunparse_without_fragment(urlparse(url, <<>>)) ELSE url

\* the directory part of a base path: everything up to its last "/"
BaseDir(bpath) ==
  LET slashes == {k \in 1..Len(bpath) : bpath[k] = "/"}
  IN  IF slashes = {} THEN <<"/">>
      ELSE SubSeq(bpath, 1, CHOOSE k \in slashes : \A m \in slashes : m <= k)

\* urljoin once base and url are parsed into b and u, for a scheme in uses_relative
\* and uses_netloc
urljoin_relative(b, u) ==
  IF u.netloc # <<>> THEN urlunparse(u.scheme, u.netloc, u.path, u.fragment)
  ELSE IF u.path = <<>> THEN urlunparse(u.scheme, b.netloc, b.path, u.fragment)
  ELSE IF u.path[1] = "/" THEN urlunparse(u.scheme, b.netloc, u.path, u.fragment)
  ELSE urlunparse(u.scheme, b.netloc, BaseDir(b.path) \o u.path, u.fragment)

urljoin_parsed(url, b, u) ==
  IF u.scheme # b.scheme \/ u.scheme \notin uses_relative THEN url
  ELSE urljoin_relative(b, u)

urljoin_base(url, b) == urljoin_parsed(url, b, urlparse(url, b.scheme))

\* urljoin(base, url), for paths without "." / ".." / empty inner segments
urljoin(base, url) ==
  IF base = <<>> THEN url
  ELSE IF url = <<>> THEN base
  ELSE urljoin_base(url, urlparse(base, <<>>))

(***************************************************************************)
(* MultiPageScraper: the URL helpers.                                      *)
(***************************************************************************)
\* url[:-1] if url.endswith('/')
strip_slash(url) == IF endswith(url, <<"/">>) THEN SubSeq(url, 1, Len(url) - 1) ELSE url

\* a normalize_url that strips the trailing slash before the fragment
normalize_url_strip_first(url) == lower(urldefrag(strip_slash(url)))

\* a normalize_url that keeps the letter case
normalize_url_keep_case(url) == strip_slash(urldefrag(url))

normalize_url(url) == lower(strip_slash(urldefrag(url)))

\* a validation that asks for a scheme only
has_scheme_only(result) == result.scheme # <<>>

\* all([result.scheme, result.netloc])
has_scheme_and_netloc(result) == result.scheme # <<>> /\ result.netloc # <<>>

validate_url(url) == has_scheme_and_netloc(urlparse(url, <<>>))

\* a filter that accepts every host
same_domain_any_host(url, base_domain) == TRUE

\* the scheme-and-host test on a URL that is_valid_subpage starts with
same_domain(url, base_domain) ==
  urlparse(url, <<>>).netloc = urlparse(base_domain, <<>>).netloc

avoid_extensions ==
  { <<".", "p", "d", "f">>, <<".", "j", "p", "g">>, <<".", "j", "p", "e", "g">>,
    <<".", "p", "n", "g">>, <<".", "g", "i", "f">>, <<".", "z", "i", "p">>,
    <<".", "e", "x", "e">>, <<".", "d", "m", "g">>, <<".", "p", "k", "g">>,
    <<".", "d", "e", "b">>, <<".", "r", "p", "m">>, <<".", "t", "a", "r">>,
    <<".", "g", "z">>, <<".", "m", "p", "3">>, <<".", "m", "p", "4">>,
    <<".", "a", "v", "i">>, <<".", "m", "o", "v">>, <<".", "w", "m", "v">>,
    <<".", "d", "o", "c">>, <<".", "d", "o", "c", "x">>, <<".", "x", "l", "s">>,
    <<".", "x", "l", "s", "x">>, <<".", "p", "p", "t">>, <<".", "p", "p", "t", "x">> }

avoid_patterns ==
  { MAILTO \o <<":">>,
    <<"j", "a", "v", "a", "s", "c", "r", "i", "p", "t", ":">>,
    <<"t", "e", "l", ":">>, <<"#">>,
    <<"w", "h", "a", "t", "s", "a", "p", "p", ":">>, <<"s", "m", "s", ":">> }

is_valid_subpage(url, base_domain) ==
  /\ same_domain(url, base_domain)
  /\ ~\E ext \in avoid_extensions : endswith(lower(url), ext)
  /\ ~\E pattern \in avoid_patterns : contains(pattern, lower(url))

(***************************************************************************)
(* find_subpages.  soup is the sequence of the page's anchors, each        *)
(* [href, text]: what soup.find_all('a', href=True) yields, in page order. *)
(***************************************************************************)
\* the keyword list without 'product'
priority_keywords_no_product ==
  { <<"c", "o", "n", "t", "a", "c", "t">>, <<"a", "b", "o", "u", "t">>,
    <<"t", "e", "a", "m">>, <<"s", "t", "a", "f", "f">>,
    <<"l", "o", "c", "a", "t", "i", "o", "n">>, <<"o", "f", "f", "i", "c", "e">>,
    <<"s", "u", "p", "p", "o", "r", "t">>, <<"h", "e", "l", "p">>,
    <<"s", "e", "r", "v", "i", "c", "e">>,
    <<"s", "o", "l", "u", "t", "i", "o", "n">>,
    <<"c", "a", "r", "e", "e", "r", "s">> }

priority_keywords ==
  { <<"c", "o", "n", "t", "a", "c", "t">>, <<"a", "b", "o", "u", "t">>,
    <<"t", "e", "a", "m">>, <<"s", "t", "a", "f", "f">>,
    <<"l", "o", "c", "a", "t", "i", "o", "n">>, <<"o", "f", "f", "i", "c", "e">>,
    <<"s", "u", "p", "p", "o", "r", "t">>, <<"h", "e", "l", "p">>,
    <<"s", "e", "r", "v", "i", "c", "e">>, <<"p", "r", "o", "d", "u", "c", "t">>,
    <<"s", "o", "l", "u", "t", "i", "o", "n">>,
    <<"c", "a", "r", "e", "e", "r", "s">> }

is_priority(link) ==
  \E keyword \in priority_keywords :
     contains(keyword, lower(link.text)) \/ contains(keyword, lower(link.href))

\* a filter that does not look at the visited set
is_kept_whether_visited(full_url, base_url, visited) == is_valid_subpage(full_url, base_url)

\* the condition of the loop on an anchor's resolved URL
is_kept(full_url, base_url, visited) ==
  is_valid_subpage(full_url, base_url) /\ normalize_url(full_url) \notin visited

\* the anchors that pass the filter of the loop, in page order
kept_anchors(soup, base_url, visited) ==
  SelectSeq(soup, LAMBDA link : is_kept(urljoin(base_url, link.href), base_url, visited))

\* all_links when the loop ends: one (full_url, current_depth + 1, is_priority) per kept anchor
\* candidates two levels below the page
candidates_two_deeper(kept, base_url, current_depth) ==
  [i \in 1..Len(kept) |->
     [url         |-> urljoin(base_url, kept[i].href),
      depth       |-> current_depth + 2,
      is_priority |-> is_priority(kept[i])]]

\* the list the loop builds, from the kept anchors
candidates(kept, base_url, current_depth) ==
  [i \in 1..Len(kept) |->
     [url         |-> urljoin(base_url, kept[i].href),
      depth       |-> current_depth + 1,
      is_priority |-> is_priority(kept[i])]]

all_links(soup, base_url, current_depth, visited) ==
  candidates(kept_anchors(soup, base_url, visited), base_url, current_depth)

\* a sort key that ignores the priority flag
KeyLess_url_only(x, y) == StrLess(x.url, y.url)

\* key(x) < key(y) for key = (not is_priority, url)
KeyLess(x, y) ==
  \/ x.is_priority /\ ~y.is_priority
  \/ x.is_priority = y.is_priority /\ StrLess(x.url, y.url)

\* list.sort(key=...): a stable sort, here by insertion
RECURSIVE SortLinks(_)
SortLinks(links) ==
  IF links = <<>> THEN <<>>
  ELSE
    LET x == links[Len(links)]
        sorted == SortLinks(SubSeq(links, 1, Len(links) - 1))
        n == Cardinality({i \in 1..Len(sorted) : ~KeyLess(x, sorted[i])})
    IN  SubSeq(sorted, 1, n) \o <<x>> \o SubSeq(sorted, n + 1, Len(sorted))

\* all_links[:remaining_pages], for any integer remaining_pages
Truncate(links, remaining_pages) ==
  IF remaining_pages >= 0
  THEN SubSeq(links, 1, Min(remaining_pages, Len(links)))
  ELSE SubSeq(links, 1, Len(links) + remaining_pages)

(***************************************************************************)
(* The state.                                                              *)
(***************************************************************************)
VARIABLES
  max_pages,          \* self.max_pages
  max_depth,          \* self.max_depth
  visited_urls,       \* self.visited_urls: a set of normalized URLs
  lock,               \* self.lock: "free" or "locked"
  pc,                 \* scrape_website: "idle" (not called), "loop", "done" (returned),
                      \* "callback" (at line 352 of an iteration, explored alone),
                      \* "normalize" (at line 278 of scrape_single_page, explored alone),
                      \* "raised" (left by an exception of the parser)
  start_url,          \* scrape_website's argument
  progress_callback,  \* whether scrape_website was given a callback
  pages_queue,        \* the deque of [url, depth]
  all_emails, all_phones, all_addresses, all_social_media, pages_details,
  results,            \* the dict scrape_website returned
  events,             \* history: the callbacks, claims, fetches and sleeps, in order
  workers,            \* the concurrent callers of scrape_single_page
  nu_url, nu_out,     \* normalize_url explored alone: its input, its successive results
  fs_args, fs_called, fs_out,  \* find_subpages explored alone
  da_in, da_out,      \* deduplicate_addresses explored alone: its argument, its result
  site,               \* the web site: what fetch_page can return during the crawl
  pr_out,             \* the progress computation explored alone: the percent it passed
  ep_in, ep_out       \* extract_phones explored alone: the pattern's matches, its results

instance_vars == <<max_pages, max_depth, visited_urls, lock>>

crawl_vars ==
  <<pc, start_url, progress_callback, pages_queue, all_emails, all_phones,
    all_addresses, all_social_media, pages_details, results, events>>

normalize_vars == <<nu_url, nu_out>>

discover_vars == <<fs_args, fs_called, fs_out>>

dedup_vars == <<da_in, da_out>>

\* the variables of the functions explored alone
phones_vars == <<ep_in, ep_out>>

unit_vars == <<normalize_vars, discover_vars, dedup_vars, pr_out, phones_vars>>

vars == <<instance_vars, crawl_vars, workers, unit_vars, site>>

\* the (url, depth) pairs of the links returned
url_depth_pairs(links) == [i \in 1..Len(links) |-> [url |-> links[i].url, depth |-> links[i].depth]]

find_subpages(soup, base_url, current_depth, visited) ==
  IF current_depth >= max_depth THEN <<>>
  ELSE
    LET remaining_pages == max_pages - Cardinality(visited)
    IN  url_depth_pairs(Truncate(SortLinks(all_links(soup, base_url, current_depth, visited)),
                                 remaining_pages))

(***************************************************************************)
(* __init__, and the values of the variables a specification leaves alone. *)
(***************************************************************************)
\* no dict
NoDict == <<>>

ConstructorInit ==
  /\ max_pages \in 1..MaxPagesBound    \* the number_input's min_value is 1
  /\ max_depth \in 0..MaxDepthBound    \* the number_input's min_value is 0
  /\ visited_urls = {}
  /\ lock = "free"

\* some scraper, for the specifications that explore a function of no instance state
InstanceIdle ==
  /\ max_pages = MaxPagesBound
  /\ max_depth = MaxDepthBound
  /\ visited_urls = {}
  /\ lock = "free"

CrawlIdle ==
  /\ pc = "idle"
  /\ start_url = <<>>
  /\ progress_callback = FALSE
  /\ pages_queue = <<>>
  /\ all_emails = {}
  /\ all_phones = {}
  /\ all_addresses = <<>>
  /\ all_social_media = NoDict
  /\ pages_details = <<>>
  /\ results = NoDict
  /\ events = <<>>

WorkersIdle == workers = <<>>

NormalizeIdle == nu_url = <<>> /\ nu_out = <<>>

DiscoverIdle == fs_args = NoDict /\ fs_called = FALSE /\ fs_out = <<>>

DedupIdle == da_in = <<>> /\ da_out = <<>>

\* no site: nothing is fetched
NoSite == site = {}

ProgressIdle == pr_out = NoDict

PhonesIdle == ep_in = {} /\ ep_out = <<>>

(***************************************************************************)
(* normalize_url explored alone: applied to a string, then to its result.  *)
(***************************************************************************)
Strings(alphabet, n) == UNION {[1..k -> alphabet] : k \in 0..n}

NormPrefixes ==
  { <<>>,
    HTTP \o <<":">>,
    HTTP \o <<":", "/", "/", "a">>,
    <<"H", "T", "T", "P", ":", "/", "/", "A", ".", "b", "/", "X">> }

NormInputs ==
  {p \o t : p \in NormPrefixes, t \in Strings({"/", "#", "p", "P"}, MaxTail)}

InitNormalize ==
  /\ InstanceIdle /\ CrawlIdle /\ WorkersIdle /\ DiscoverIdle /\ DedupIdle /\ NoSite
  /\ ProgressIdle /\ PhonesIdle
  /\ nu_url \in NormInputs
  /\ nu_out = <<>>

NormalizeCall ==
  /\ Len(nu_out) < 2
  /\ nu_out' = Append(nu_out,
                      normalize_url(IF nu_out = <<>> THEN nu_url ELSE nu_out[Len(nu_out)]))
  /\ UNCHANGED <<instance_vars, crawl_vars, workers, nu_url, discover_vars, dedup_vars,
                 site, pr_out, phones_vars>>

NextNormalize == NormalizeCall

SpecNormalize == InitNormalize /\ [][NextNormalize]_vars

\* C8, as stated: normalize_url is idempotent on every URL string, also on one that
\* ends in more than one slash: normalize_url(normalize_url(u)) = normalize_url(u).
C8_Idempotent == Len(nu_out) = 2 => nu_out[2] = nu_out[1]

\* C8, amended: normalize_url(normalize_url(u)) = normalize_url(u) for every URL
\* string u whose fragment-stripped form does not end in two or more slashes (a
\* slash directly before the fragment is fine), and for no other u.
C8_IdempotentUpToOneSlash ==
  Len(nu_out) = 2 =>
    (nu_out[2] = nu_out[1] <=> ~endswith(urldefrag(nu_url), <<"/", "/">>))

\* C8's case: a mixed-case URL with a slash directly before its fragment was
\* normalized twice.
C8_Witness ==
  /\ Len(nu_out) = 2
  /\ contains(<<"/", "#">>, nu_url)
  /\ ~endswith(urldefrag(nu_url), <<"/", "/">>)
  /\ nu_out[1] # urldefrag(nu_url)
  /\ lower(nu_url) # nu_url

(***************************************************************************)
(* find_subpages explored alone, on the states scrape_single_page calls it *)
(* in: current_depth < max_depth, the page's own URL already claimed, and  *)
(* no more than max_pages URLs claimed.                                    *)
(***************************************************************************)
SEED == HTTP \o <<":", "/", "/", "a", "/">>

ContactUs == <<"C", "o", "n", "t", "a", "c", "t", " ", "U", "s">>

Products == <<"P", "r", "o", "d", "u", "c", "t", "s">>

Blog == <<"B", "l", "o", "g">>

DiscHrefs ==
  { <<"/", "a", "b", "o", "u", "t">>,
    <<"/", "p">>,
    <<"/", "P", "/">>,
    HTTP \o <<":", "/", "/", "b", "/", "x">> }

DiscAnchors == [href : DiscHrefs, text : {ContactUs, Products, Blog}]

DiscSoups == UNION {[1..k -> DiscAnchors] : k \in 0..MaxAnchors}

\* a page of the site other than the seed, and one more page claimed before it
PageS == HTTP \o <<":", "/", "/", "a", "/", "s">>

PageP == HTTP \o <<":", "/", "/", "a", "/", "p">>

InitDiscover ==
  /\ CrawlIdle /\ WorkersIdle /\ NormalizeIdle /\ DedupIdle /\ NoSite /\ ProgressIdle /\ PhonesIdle
  /\ lock = "free"
  /\ max_pages \in 1..MaxPagesBound
  /\ max_depth \in 1..MaxDepthBound
  /\ \E soup \in DiscSoups, depth \in 0..(MaxDepthBound - 1) :
        /\ depth < max_depth
        /\ fs_args = [soup |-> soup,
                      base_url |-> IF depth = 0 THEN SEED ELSE PageS,
                      depth |-> depth]
        /\ \E others \in SUBSET {PageP} :
              visited_urls = IF depth = 0 THEN {normalize_url(SEED)}
                             ELSE {normalize_url(SEED), PageS} \cup others
  /\ Cardinality(visited_urls) <= max_pages
  /\ fs_called = FALSE
  /\ fs_out = <<>>

FindSubpagesCall ==
  /\ ~fs_called
  /\ fs_called' = TRUE
  /\ fs_out' = find_subpages(fs_args.soup, fs_args.base_url, fs_args.depth, visited_urls)
  /\ UNCHANGED <<instance_vars, crawl_vars, workers, normalize_vars, fs_args, dedup_vars,
                 site, pr_out, phones_vars>>

NextDiscover == FindSubpagesCall

SpecDiscover == InitDiscover /\ [][NextDiscover]_vars

\* what the call of find_subpages in the current state had to choose from
FsKept == all_links(fs_args.soup, fs_args.base_url, fs_args.depth, visited_urls)

FsRemaining == max_pages - Cardinality(visited_urls)

\* the order of the claim: priority before non-priority, then URL string ascending
C9_Before(x, y) ==
  \/ x.is_priority /\ ~y.is_priority
  \/ x.is_priority = y.is_priority /\ StrLess(x.url, y.url)

\* C9: find_subpages returns exactly the first remaining_budget = max_pages -
\* |visited set| kept candidates in the order priority before non-priority, then URL
\* ascending: the result takes min(budget, number kept) distinct candidates, in
\* non-decreasing key order, none of them after a candidate left out; so a
\* non-priority link is returned only if every priority candidate is, and each
\* element is paired with depth + 1.
C9_SortedPrefix ==
  fs_called =>
    LET kept == FsKept
        n == Len(fs_out)
    IN  /\ n = Min(FsRemaining, Len(kept))
        /\ \E f \in [1..n -> 1..Len(kept)] :
              /\ \A i, j \in 1..n : i # j => f[i] # f[j]
              /\ \A i \in 1..n :
                    fs_out[i] = [url |-> kept[f[i]].url, depth |-> fs_args.depth + 1]
              /\ \A i, j \in 1..n : i < j => ~C9_Before(kept[f[j]], kept[f[i]])
              /\ \A i \in 1..n : \A k \in 1..Len(kept) :
                    (\A j \in 1..n : f[j] # k) => ~C9_Before(kept[k], kept[f[i]])
              /\ (\E i \in 1..n : ~kept[f[i]].is_priority) =>
                    \A k \in 1..Len(kept) :
                       kept[k].is_priority => \E j \in 1..n : f[j] = k

\* C9's case: the budget cut the list short of a priority candidate, behind a
\* non-priority candidate that stood before it on the page.
C9_Witness ==
  /\ fs_called
  /\ Len(FsKept) = 2
  /\ ~FsKept[1].is_priority /\ FsKept[2].is_priority
  /\ StrLess(FsKept[1].url, FsKept[2].url)
  /\ FsRemaining = 1
  /\ Len(fs_out) = 1

\* the page has exactly two kept candidates, "Contact Us" and "Products", and the
\* remaining budget is 1; c and p are their places on the page
C10_Case(c, p) ==
  LET kept == kept_anchors(fs_args.soup, fs_args.base_url, visited_urls)
  IN  /\ fs_called
      /\ Len(kept) = 2
      /\ {c, p} = {1, 2}
      /\ kept[c].text = ContactUs
      /\ kept[p].text = Products
      /\ FsRemaining = 1

\* C10, as stated: of two kept candidates with anchor texts "Contact Us" and
\* "Products", with any hrefs, and a remaining budget of 1, find_subpages returns
\* only the "Contact Us" link.
C10_ContactUsOnly ==
  \A c, p \in 1..2 :
     C10_Case(c, p) =>
       fs_out = << [url |-> FsKept[c].url, depth |-> fs_args.depth + 1] >>

\* C10, amended: both links are priority links ("Products" contains the keyword
\* "product"), so find_subpages returns exactly one link, the one whose resolved
\* URL sorts first: the "Contact Us" link unless the "Products" link's URL is
\* smaller.
C10_SmallerUrlOnly ==
  \A c, p \in 1..2 :
     C10_Case(c, p) =>
       /\ FsKept[c].is_priority /\ FsKept[p].is_priority
       /\ fs_out = << [url   |-> IF StrLess(FsKept[p].url, FsKept[c].url)
                                 THEN FsKept[p].url ELSE FsKept[c].url,
                       depth |-> fs_args.depth + 1] >>

\* C10's case: "Contact Us" and "Products", neither href with a keyword, budget 1,
\* and the "Contact Us" link returned.
C10_Witness ==
  \E c, p \in 1..2 :
     /\ C10_Case(c, p)
     /\ StrLess(FsKept[c].url, FsKept[p].url)
     /\ \A k \in priority_keywords : ~contains(k, lower(FsKept[c].url))
     /\ fs_out = << [url |-> FsKept[c].url, depth |-> fs_args.depth + 1] >>

(***************************************************************************)
(* The crawl: scrape_website on one scraper, called any number of times.   *)
(* What fetch_page returns is chosen freely at each fetch: "" (a failure)  *)
(* or a page.  A page is what BeautifulSoup and the extract_* methods make *)
(* of its HTML: its anchors in order and the signals found on it.  The     *)
(* timestamps are left out.                                                *)
(***************************************************************************)
\* fetch_page's ("", 0)
EmptyHtml ==
  [empty |-> TRUE, anchors |-> <<>>, emails |-> {}, phones |-> {},
   addresses |-> <<>>, social_media |-> NoDict]

\* the anchors a page of the site can have, in the order they come on a page
CrawlAnchors ==
  << [href |-> <<"/", "h", "e", "l", "p">>, text |-> Blog],
     [href |-> <<"/", "p">>, text |-> Blog],
     [href |-> <<"/", "P", "/">>, text |-> Blog],
     [href |-> <<"/", "z">>, text |-> ContactUs],
     [href |-> HTTP \o <<":", "/", "/", "b", "/", "x">>, text |-> ContactUs] >>

\* the anchors of CrawlAnchors at the positions I, in order
AnchorsAt(I) ==
  [k \in 1..Cardinality(I) |->
     CrawlAnchors[CHOOSE i \in I : Cardinality({j \in I : j < i}) = k - 1]]

\* soup.find_all('a', href=True) of a page: at most MaxLinks of the anchors
CrawlSoups ==
  {AnchorsAt(I) : I \in {J \in SUBSET (1..Len(CrawlAnchors)) : Cardinality(J) <= MaxLinks}}

Addr1 == [street |-> "1 Main St", state |-> "CA", zip |-> "94105"]

Addr2 == [street |-> "2 Oak Ave", state |-> "CA", zip |-> "None"]

\* the signals on a page: none, some, and more that overlap the former
Bodies ==
  { [emails |-> {}, phones |-> {}, addresses |-> <<>>, social_media |-> NoDict],
    [emails |-> {"jane@a.com"}, phones |-> {"(415) 555-2671"},
     addresses |-> <<Addr1>>,
     social_media |-> [twitter |-> {"twitter.com/acme", "twitter.com/jane"}]],
    [emails |-> {"jane@a.com", "bob@a.com", "c@a.com", "d@a.com", "e@a.com", "f@a.com",
                 "g@a.com", "h@a.com", "i@a.com", "j@a.com", "k@a.com"},
     phones |-> {"(415) 555-2671", "(212) 555-0100"},
     addresses |-> <<Addr2, Addr1>>,
     social_media |-> [twitter |-> {"twitter.com/acme", "twitter.com/bob"},
                       facebook |-> {"facebook.com/acme"}]] }

Htmls ==
  { [empty |-> FALSE, anchors |-> a, emails |-> b.emails, phones |-> b.phones,
     addresses |-> b.addresses, social_media |-> b.social_media] :
       a \in CrawlSoups, b \in Bodies }

\* what fetch_page(url) can return
fetch_page == {EmptyHtml} \cup Htmls

\* the arguments scrape_website is called with
SeedUrls ==
  { SEED,                                \* scheme and host
    <<"a", "/", "p">>,                   \* no scheme
    HTTP \o <<":", "/", "a">> }          \* no host

\* a check that never adds the URL
claim_check_only(normalized_url, visited) ==
  [already |-> normalized_url \in visited, visited |-> visited]

\* the body of "with self.lock": whether the URL was already claimed, and the set after
claim(normalized_url, visited) ==
  IF normalized_url \in visited
  THEN [already |-> TRUE, visited |-> visited]
  ELSE [already |-> FALSE, visited |-> visited \cup {normalized_url}]

\* a scrape_single_page that returns a record without signals when the fetch fails
contact_info_empty_record(url, depth, html, visited) ==
  [url          |-> url,
   depth        |-> depth,
   emails       |-> html.emails,
   phones       |-> html.phones,
   addresses    |-> html.addresses,
   social_media |-> html.social_media,
   subpages     |-> IF depth < max_depth /\ ~html.empty
                    THEN find_subpages(html.anchors, url, depth, visited)
                    ELSE <<>>]

\* the rest of scrape_single_page once the URL is claimed: contact_info, or {}
contact_info(url, depth, html, visited) ==
  IF html.empty THEN NoDict
  ELSE [url          |-> url,
        depth        |-> depth,
        emails       |-> html.emails,
        phones       |-> html.phones,
        addresses    |-> html.addresses,
        social_media |-> html.social_media,
        subpages     |-> IF depth < max_depth
                         THEN find_subpages(html.anchors, url, depth, visited)
                         ELSE <<>>]

\* the history entry of fetch_page(url) returning html: the outcome and, for a page
\* that was fetched, what the extractors found in it
fetch_event(url, html) ==
  [op |-> "fetch", url |-> url, ok |-> ~html.empty, emails |-> html.emails,
   phones |-> html.phones, addresses |-> html.addresses,
   social_media |-> html.social_media]

\* a scrape_single_page that gives the URL back when the fetch fails
after_claim_release_on_failure(url, depth, html, c) ==
  IF c.already
  THEN [visited |-> c.visited, page_data |-> NoDict, events |-> <<>>]
  ELSE [visited   |-> IF html.empty THEN c.visited \ {normalize_url(url)} ELSE c.visited,
        page_data |-> contact_info(url, depth, html, c.visited),
        events    |-> << [op |-> "claim", url |-> normalize_url(url)],
                         fetch_event(url, html) >>]

\* scrape_single_page after its locked section returned c = [already, visited]
after_claim(url, depth, html, c) ==
  IF c.already
  THEN [visited |-> c.visited, page_data |-> NoDict, events |-> <<>>]
  ELSE [visited   |-> c.visited,
        page_data |-> contact_info(url, depth, html, c.visited),
        events    |-> << [op |-> "claim", url |-> normalize_url(url)],
                         fetch_event(url, html) >>]

\* a scrape_single_page that also claims the subpages it found
scrape_single_page_claim_at_discovery(url, depth, html, visited) ==
  [after_claim(url, depth, html, claim(normalize_url(url), visited)) EXCEPT
     !.visited = @ \cup {normalize_url(urljoin(url, link.href)) : link \in
                            {html.anchors[i] : i \in 1..Len(html.anchors)}}]

\* scrape_single_page(url, depth) run without interruption, fetch_page returning html:
\* the visited set after it, what it returns, and what it did
scrape_single_page(url, depth, html, visited) ==
  after_claim(url, depth, html, claim(normalize_url(url), visited))

\* a progress without the cap
progress_uncapped(visited) == [num |-> Cardinality(visited) * 100, den |-> max_pages]

\* the progress passed to the callback, as a fraction of max_pages:
\* min(95, len(visited_urls) / max_pages * 100)
progress(visited) ==
  [num |-> Min(95 * max_pages, Cardinality(visited) * 100), den |-> max_pages]

\* a merge in which the links of the page replace those collected for the platform
merge_social_media_overwrite(all, page) ==
  [platform \in DOMAIN all \cup DOMAIN page |->
     IF platform \in DOMAIN page THEN page[platform] ELSE all[platform]]

\* all_social_media after the merge loop over page_data['social_media']
merge_social_media(all, page) ==
  [platform \in DOMAIN all \cup DOMAIN page |->
     (IF platform \in DOMAIN all THEN all[platform] ELSE {})
       \cup (IF platform \in DOMAIN page THEN page[platform] ELSE {})]

\* a comparison that lets the budget be reached and passed by one
within_budget_inclusive(n) == n <= max_pages

\* "< self.max_pages": the test of the while loop and of the enqueue loop
within_budget(n) == n < max_pages

\* a loop that puts the subpages at the head of the frontier (appendleft)
RECURSIVE enqueue_appendleft(_, _, _)
enqueue_appendleft(queue, subpages, visited) ==
  IF subpages = <<>> THEN queue
  ELSE IF Len(queue) + Cardinality(visited) < max_pages
       THEN enqueue_appendleft(<<Head(subpages)>> \o queue, Tail(subpages), visited)
       ELSE enqueue_appendleft(queue, Tail(subpages), visited)

\* a loop that appends every subpage it is given
enqueue_untested(queue, subpages, visited) == queue \o subpages

\* the loop that appends the subpages while len(pages_queue) + len(visited_urls) < max_pages
RECURSIVE enqueue(_, _, _)
enqueue(queue, subpages, visited) ==
  IF subpages = <<>> THEN queue
  ELSE IF within_budget(Len(queue) + Cardinality(visited))
       THEN enqueue(Append(queue, Head(subpages)), Tail(subpages), visited)
       ELSE enqueue(queue, Tail(subpages), visited)

\* the cap of deduplicate_addresses
AddressCap == 10

RECURSIVE unique_addresses(_, _)
unique_addresses(addresses, seen) ==
  IF addresses = <<>> THEN <<>>
  ELSE
    LET addr == Head(addresses)
    IN  IF addr.street # "" /\ addr.street \notin seen
        THEN <<addr>> \o unique_addresses(Tail(addresses), seen \cup {addr.street})
        ELSE unique_addresses(Tail(addresses), seen)

\* a deduplication that cuts the list before it removes the duplicates
deduplicate_addresses_cap_first(addresses) ==
  unique_addresses(SubSeq(addresses, 1, Min(AddressCap, Len(addresses))), {})

deduplicate_addresses(addresses) ==
  LET u == unique_addresses(addresses, {})
  IN  SubSeq(u, 1, Min(AddressCap, Len(u)))

\* the least element instead of the greatest
Max_least(S) == CHOOSE x \in S : \A y \in S : x <= y

\* max(...)
Max(S) == CHOOSE x \in S : \A y \in S : y <= x

\* a start that keeps the set of the previous crawl
clear_nothing(visited) == visited

\* self.visited_urls.clear()
clear(visited) == {}

InitCrawl ==
  /\ ConstructorInit /\ CrawlIdle /\ WorkersIdle /\ NormalizeIdle /\ DiscoverIdle /\ DedupIdle
  /\ site = fetch_page
  /\ ProgressIdle /\ PhonesIdle

\* scrape_website(start_url, cb) up to its first return or its loop
ScrapeWebsiteInvalid ==
  /\ pc \in {"idle", "done"}
  /\ \E url \in SeedUrls, cb \in BOOLEAN :
        /\ ~validate_url(url)
        /\ start_url' = url
        /\ progress_callback' = cb
  /\ visited_urls' = clear(visited_urls)
  /\ results' = [error |-> "Invalid URL format"]
  /\ pc' = "done"
  /\ pages_queue' = <<>>
  /\ all_emails' = {}
  /\ all_phones' = {}
  /\ all_addresses' = <<>>
  /\ all_social_media' = NoDict
  /\ pages_details' = <<>>
  /\ events' = <<>>
  /\ UNCHANGED <<max_pages, max_depth, lock, workers, unit_vars, site>>

ScrapeWebsiteStart ==
  /\ pc \in {"idle", "done"}
  /\ \E url \in SeedUrls, cb \in BOOLEAN :
        /\ validate_url(url)
        /\ start_url' = url
        /\ progress_callback' = cb
        /\ pages_queue' = << [url |-> url, depth |-> 0] >>
  /\ visited_urls' = clear(visited_urls)
  /\ results' = NoDict
  /\ pc' = "loop"
  /\ all_emails' = {}
  /\ all_phones' = {}
  /\ all_addresses' = <<>>
  /\ all_social_media' = NoDict
  /\ pages_details' = <<>>
  /\ events' = <<>>
  /\ UNCHANGED <<max_pages, max_depth, lock, workers, unit_vars, site>>

\* a loop without its early test, which leaves the entry to scrape_single_page
already_visited_untested(url, visited) == FALSE

\* "Skip if already visited": self.normalize_url(current_url) in self.visited_urls
already_visited(url, visited) == normalize_url(url) \in visited

\* the while condition
LoopGuard == pages_queue # <<>> /\ within_budget(Cardinality(visited_urls))

\* one iteration that ends at "continue"
LoopSkip ==
  /\ pc = "loop"
  /\ LoopGuard
  /\ already_visited(Head(pages_queue).url, visited_urls)
  /\ pages_queue' = Tail(pages_queue)
  /\ events' = Append(events, [op |-> "dequeue", url |-> Head(pages_queue).url,
                                depth |-> Head(pages_queue).depth])
  /\ UNCHANGED <<instance_vars, pc, start_url, progress_callback, all_emails,
                 all_phones, all_addresses, all_social_media, pages_details, results,
                 workers, unit_vars, site>>

\* the rest of an iteration once scrape_single_page returned r = [visited, page_data,
\* events]; popped is the queue after popleft, before the history the iteration began
\* with (the dequeue, the callback)
AfterScrape(r, popped, before) ==
  /\ visited_urls' = r.visited
  /\ IF r.page_data # NoDict
     THEN /\ all_emails' = all_emails \cup r.page_data.emails
          /\ all_phones' = all_phones \cup r.page_data.phones
          /\ all_addresses' = all_addresses \o r.page_data.addresses
          /\ all_social_media' =
               merge_social_media(all_social_media, r.page_data.social_media)
          /\ pages_details' =
               Append(pages_details,
                      [url             |-> r.page_data.url,
                       depth           |-> r.page_data.depth,
                       emails_found    |-> Cardinality(r.page_data.emails),
                       phones_found    |-> Cardinality(r.page_data.phones),
                       addresses_found |-> Len(r.page_data.addresses)])
          /\ pages_queue' = enqueue(popped, r.page_data.subpages, r.visited)
          /\ events' = before \o r.events \o << [op |-> "sleep"] >>
     ELSE /\ pages_queue' = popped
          /\ events' = before \o r.events
          /\ UNCHANGED <<all_emails, all_phones, all_addresses, all_social_media,
                         pages_details>>

\* the history of an iteration up to the call of scrape_single_page
BeforeScrape(current) ==
  events \o << [op |-> "dequeue", url |-> current.url, depth |-> current.depth] >>
         \o (IF progress_callback
             THEN << [op |-> "progress", url |-> current.url,
                      percent |-> progress(visited_urls)] >>
             ELSE <<>>)

\* one iteration that scrapes the dequeued page
LoopScrape ==
  /\ pc = "loop"
  /\ LoopGuard
  /\ ~already_visited(Head(pages_queue).url, visited_urls)
  /\ \E html \in site :
        AfterScrape(scrape_single_page(Head(pages_queue).url, Head(pages_queue).depth,
                                       html, visited_urls),
                    Tail(pages_queue),
                    BeforeScrape(Head(pages_queue)))
  /\ UNCHANGED <<max_pages, max_depth, lock, pc, start_url, progress_callback,
                 results, workers, unit_vars, site>>

\* the loop ends: compile the results and return
ScrapeWebsiteReturn ==
  /\ pc = "loop"
  /\ ~LoopGuard
  /\ results' =
       [start_url         |-> start_url,
        pages_scraped     |-> Cardinality(visited_urls),
        max_depth_reached |-> IF pages_details # <<>>
                              THEN Max({pages_details[i].depth :
                                          i \in 1..Len(pages_details)})
                              ELSE 0,
        all_emails        |-> all_emails,
        all_phones        |-> all_phones,
        all_addresses     |-> deduplicate_addresses(all_addresses),
        all_social_media  |-> all_social_media,
        pages_details     |-> pages_details,
        visited_urls      |-> visited_urls]
  /\ pc' = "done"
  /\ UNCHANGED <<instance_vars, start_url, progress_callback, pages_queue, all_emails,
                 all_phones, all_addresses, all_social_media, pages_details, events,
                 workers, unit_vars, site>>

Next ==
  \/ ScrapeWebsiteInvalid
  \/ ScrapeWebsiteStart
  \/ LoopSkip
  \/ LoopScrape
  \/ ScrapeWebsiteReturn

Spec == InitCrawl /\ [][Next]_vars

(***************************************************************************)
(* The history of the current crawl.                                       *)
(***************************************************************************)
\* the positions of the fetches in events
Fetches == {i \in 1..Len(events) : events[i].op = "fetch"}

FailedFetches == {i \in Fetches : ~events[i].ok}

\* the fetches that returned content, in order
Successes == SelectSeq(events, LAMBDA e : e.op = "fetch" /\ e.ok)

\* scrape_website returned an AggregateResult
Returned == pc = "done" /\ "pages_scraped" \in DOMAIN results

AggregateKeys ==
  {"start_url", "pages_scraped", "max_depth_reached", "all_emails", "all_phones",
   "all_addresses", "all_social_media", "pages_details", "visited_urls"}

\* C1: in every state of a crawl the visited set holds at most max_pages normalized
\* URLs, and the pages_scraped that is returned is at most max_pages.
C1_VisitedWithinBudget ==
  /\ Cardinality(visited_urls) <= max_pages
  /\ Returned => results.pages_scraped <= max_pages

\* C1's case: a crawl that used its whole budget of several pages, one fetch failing.
C1_Witness ==
  /\ Returned
  /\ max_pages >= 3
  /\ results.pages_scraped = max_pages
  /\ FailedFetches # {}

\* C2: every entry of pages_details and every entry on the frontier has depth <=
\* max_depth; the seed is enqueued with depth 0 and every entry an iteration
\* enqueues has the depth of the page it was found on, plus one.
C2_DepthBounded ==
  /\ [](/\ \A i \in 1..Len(pages_queue) : pages_queue[i].depth <= max_depth
        /\ \A i \in 1..Len(pages_details) : pages_details[i].depth <= max_depth
        /\ (pc = "loop" /\ events = <<>>) =>
              pages_queue = << [url |-> start_url, depth |-> 0] >>)
  /\ [][(pc = "loop" /\ pc' = "loop") =>
          \A i \in Len(pages_queue)..Len(pages_queue') :
             pages_queue'[i].depth = Head(pages_queue).depth + 1]_vars

\* C2's case: a page at the deepest level allowed was scraped, two hops from the seed.
C2_Witness ==
  /\ max_depth = 2
  /\ \E i \in 1..Len(pages_details) : pages_details[i].depth = max_depth

C4_FailureIsAbsorbed ==
  /\ [](/\ \A i \in Fetches : normalize_url(events[i].url) \in visited_urls
        /\ \A i, j \in Fetches :
              normalize_url(events[i].url) = normalize_url(events[j].url) => i = j
        /\ (pc = "done" /\ FailedFetches # {}) =>
              /\ DOMAIN results = AggregateKeys
              /\ \A i \in FailedFetches :
                    normalize_url(events[i].url) \in results.visited_urls
              /\ results.pages_scraped = Cardinality(Fetches))
  /\ [][(events' # events /\ events' # <<>> /\ events'[Len(events')].op = "fetch"
            /\ ~events'[Len(events')].ok) =>
          /\ pc' = "loop"
          /\ pages_queue' = Tail(pages_queue)
          /\ visited_urls' = visited_urls \cup {normalize_url(Head(pages_queue).url)}
          /\ UNCHANGED <<all_emails, all_phones, all_addresses, all_social_media,
                         pages_details>>]_vars

\* C4's case: a fetch failed, a later fetch succeeded, and the crawl returned.
C4_Witness ==
  /\ Returned
  /\ \E i \in FailedFetches : \E j \in Fetches : i < j /\ events[j].ok

\* C5: between any two consecutive fetches of one crawl there is a sleep, whether
\* the first of them succeeded or failed.
C5_SleepBetweenFetches ==
  \A i, j \in Fetches :
     i < j => \E k \in (i + 1)..(j - 1) : events[k].op = "sleep"

\* the seeds of the model that lack a scheme or a host
InvalidSeeds == { <<"a", "/", "p">>, HTTP \o <<":", "/", "a">> }

\* C6: a seed URL without a scheme or without a host makes scrape_website return
\* {error: "Invalid URL format"} and nothing else, with no fetch, no progress
\* callback and no URL claimed.
C6_InvalidSeedShortCircuits ==
  (pc # "idle" /\ start_url \in InvalidSeeds) =>
     /\ pc = "done"
     /\ results = [error |-> "Invalid URL format"]
     /\ DOMAIN results = {"error"}
     /\ events = <<>>
     /\ visited_urls = {}
     /\ pages_queue = <<>>

\* C6's case: a call with a callback and a seed that has a scheme but no host.
C6_Witness ==
  /\ pc = "done"
  /\ start_url = HTTP \o <<":", "/", "a">>
  /\ progress_callback
  /\ results = [error |-> "Invalid URL format"]

(***************************************************************************)
(* scrape_single_page called by concurrent workers on one scraper.  Each   *)
(* worker runs lines 278-312 a statement at a time; the statements of      *)
(* different workers interleave in any order the lock allows.              *)
(***************************************************************************)
Workers == 1..NumWorkers

\* the URLs the workers are given: two spellings of one page, and another page
WorkerUrls ==
  { HTTP \o <<":", "/", "/", "a", "/", "p">>,
    HTTP \o <<":", "/", "/", "a", "/", "P", "/">>,
    HTTP \o <<":", "/", "/", "a", "/", "z">> }

\* what fetch_page returns to a worker: nothing, or a page with two links
WorkerHtmls ==
  { EmptyHtml,
    [empty |-> FALSE,
     anchors |-> << [href |-> <<"/", "p">>, text |-> Blog],
                    [href |-> <<"/", "z">>, text |-> ContactUs] >>,
     emails |-> {"info@a.com"}, phones |-> {}, addresses |-> <<>>,
     social_media |-> NoDict] }

\* a lock that lets every caller in
acquire_unguarded(l) == TRUE

\* threading.Lock: __enter__ goes on only when no thread holds the lock
acquire(l) == l = "free"

InitWorkers ==
  /\ InstanceIdle /\ CrawlIdle /\ NormalizeIdle /\ DiscoverIdle /\ DedupIdle /\ NoSite
  /\ ProgressIdle /\ PhonesIdle
  /\ workers \in [Workers -> { [pc |-> "call", url |-> u, normalized_url |-> <<>>,
                                added |-> FALSE, fetched |-> FALSE, page_data |-> NoDict]
                               : u \in WorkerUrls }]

\* normalized_url = self.normalize_url(url)
WorkerNormalize(w) ==
  /\ workers[w].pc = "call"
  /\ workers' = [workers EXCEPT ![w].pc = "acquire",
                                ![w].normalized_url = normalize_url(workers[w].url)]
  /\ UNCHANGED <<instance_vars, crawl_vars, unit_vars, site>>

\* with self.lock: enter
WorkerAcquire(w) ==
  /\ workers[w].pc = "acquire"
  /\ acquire(lock)
  /\ lock' = "locked"
  /\ workers' = [workers EXCEPT ![w].pc = "check"]
  /\ UNCHANGED <<max_pages, max_depth, visited_urls, crawl_vars, unit_vars, site>>

\* if normalized_url in self.visited_urls: return {}
WorkerCheck(w) ==
  /\ workers[w].pc = "check"
  /\ workers' = [workers EXCEPT ![w].pc =
                   IF workers[w].normalized_url \in visited_urls
                   THEN "exit_return" ELSE "add"]
  /\ UNCHANGED <<instance_vars, crawl_vars, unit_vars, site>>

\* self.visited_urls.add(normalized_url)
WorkerAdd(w) ==
  /\ workers[w].pc = "add"
  /\ visited_urls' = visited_urls \cup {workers[w].normalized_url}
  /\ workers' = [workers EXCEPT ![w].pc = "exit", ![w].added = TRUE]
  /\ UNCHANGED <<max_pages, max_depth, lock, crawl_vars, unit_vars, site>>

\* with self.lock: leave, at the end of the block or by the return inside it
WorkerRelease(w) ==
  /\ workers[w].pc \in {"exit", "exit_return"}
  /\ lock' = "free"
  /\ workers' = [workers EXCEPT ![w].pc =
                   IF workers[w].pc = "exit" THEN "fetch" ELSE "returned"]
  /\ UNCHANGED <<max_pages, max_depth, visited_urls, crawl_vars, unit_vars, site>>

\* fetch_page and the rest of the function, which reads the visited set as it is then
WorkerFetch(w) ==
  /\ workers[w].pc = "fetch"
  /\ \E html \in WorkerHtmls :
       workers' = [workers EXCEPT
                     ![w].pc = "returned",
                     ![w].fetched = TRUE,
                     ![w].page_data = contact_info(workers[w].url, 0, html, visited_urls)]
  /\ UNCHANGED <<instance_vars, crawl_vars, unit_vars, site>>

NextWorkers ==
  \E w \in Workers :
     \/ WorkerNormalize(w)
     \/ WorkerAcquire(w)
     \/ WorkerCheck(w)
     \/ WorkerAdd(w)
     \/ WorkerRelease(w)
     \/ WorkerFetch(w)

SpecWorkers == InitWorkers /\ [][NextWorkers]_vars

\* the workers whose URL has the NormalizedURL of worker w's URL
SameUrl(w) ==
  {v \in Workers : lower(strip_slash(urldefrag(workers[v].url)))
                     = lower(strip_slash(urldefrag(workers[w].url)))}

\* C7: whatever the interleaving, the membership check and the insertion of a
\* worker are not interleaved with those of another; of the workers called with
\* one NormalizedURL at most one adds it and fetches, and once all of them have
\* returned exactly one has added it and fetched, every other has returned {}
\* without fetching, and the visited set holds that NormalizedURL once.
C7_ClaimIsAtomic ==
  /\ Cardinality({w \in Workers : workers[w].pc \in {"check", "add", "exit", "exit_return"}}) <= 1
  /\ \A w \in Workers :
       LET claimers == {v \in SameUrl(w) : workers[v].added}
           fetchers == {v \in SameUrl(w) : workers[v].fetched}
       IN  /\ Cardinality(claimers) <= 1
           /\ fetchers \subseteq claimers
           /\ claimers # {} <=> lower(strip_slash(urldefrag(workers[w].url))) \in visited_urls
           /\ (\A v \in SameUrl(w) : workers[v].pc = "returned") =>
                 /\ Cardinality(claimers) = 1
                 /\ fetchers = claimers
                 /\ \A v \in SameUrl(w) \ claimers :
                       workers[v].page_data = NoDict /\ ~workers[v].fetched
  /\ Cardinality(visited_urls) = Cardinality({SameUrl(w) : w \in {v \in Workers : workers[v].added}})

\* C7's case: two workers given different spellings of one page have both returned.
C7_Witness ==
  \E v, w \in Workers :
     /\ workers[v].url # workers[w].url
     /\ w \in SameUrl(v)
     /\ workers[v].pc = "returned" /\ workers[w].pc = "returned"
     /\ workers[v].fetched /\ workers[v].page_data # NoDict
     /\ ~workers[w].fetched /\ workers[w].page_data = NoDict

(***************************************************************************)
(* deduplicate_addresses explored alone, on the list scrape_website builds *)
(* by extending all_addresses with the addresses of each page.  Every      *)
(* street is a non-empty text, as extract_addresses produces it.           *)
(***************************************************************************)
Streets ==
  << "1 A St", "2 B St", "3 C St", "4 D St", "5 E St", "6 F St", "7 G St",
     "8 H St", "9 I St", "10 J St", "11 K St", "12 L St", "13 M St", "14 N St" >>

\* the streets of a list of addresses
StreetsOf(addresses) == {addresses[i].street : i \in 1..Len(addresses)}

\* the addresses a page can add to the list: one of a street not seen yet, or one of
\* the first or the latest street of the list with other state and zip
NextAddresses(addresses) ==
  { [street |-> Streets[i], state |-> "CA", zip |-> "94105"] :
      i \in {j \in 1..Len(Streets) : j = Cardinality(StreetsOf(addresses)) + 1} }
  \cup { [street |-> addresses[i].street, state |-> "None", zip |-> "None"] :
           i \in {j \in 1..Len(addresses) : j = 1 \/ j = Len(addresses)} }

InitDedup ==
  /\ InstanceIdle /\ CrawlIdle /\ WorkersIdle /\ NormalizeIdle /\ DiscoverIdle /\ NoSite
  /\ ProgressIdle /\ PhonesIdle
  /\ da_in = <<>>
  /\ da_out = <<>>

\* all_addresses.extend(...) by one address, then deduplicate_addresses(all_addresses)
DeduplicateAddressesCall ==
  /\ Len(da_in) < MaxAddresses
  /\ \E addr \in NextAddresses(da_in) :
        /\ da_in' = Append(da_in, addr)
        /\ da_out' = deduplicate_addresses(Append(da_in, addr))
  /\ UNCHANGED <<instance_vars, crawl_vars, workers, normalize_vars, discover_vars,
                 site, pr_out, phones_vars>>

NextDedup == DeduplicateAddressesCall

SpecDedup == InitDedup /\ [][NextDedup]_vars

\* the positions of da_in that hold the first address of their street
FirstSeen == {i \in 1..Len(da_in) : \A j \in 1..(i - 1) : da_in[j].street # da_in[i].street}

\* C11: the list deduplicate_addresses returns has at most 10 entries, no two with
\* the same street, and is the first 10 of the addresses that are the first of their
\* street in the concatenated list, in the order of that list.
C11_FirstTenDistinctStreets ==
  /\ Len(da_out) <= 10
  /\ \A a, b \in 1..Len(da_out) : a # b => da_out[a].street # da_out[b].street
  /\ Len(da_out) = IF Cardinality(FirstSeen) < 10 THEN Cardinality(FirstSeen) ELSE 10
  /\ \A k \in 1..Len(da_out) :
       \E i \in FirstSeen :
          /\ Cardinality({j \in FirstSeen : j < i}) = k - 1
          /\ da_out[k] = da_in[i]

\* C11's case: more than 10 streets in a list with a repeated street among the
\* first ten entries, cut to 10.
C11_Witness ==
  /\ Cardinality(FirstSeen) > 10
  /\ \E i \in 1..10 : i \notin FirstSeen
  /\ Len(da_out) = 10

\* the platforms with a link on some page fetched so far
Platforms == UNION {DOMAIN e.social_media : e \in {Successes[k] : k \in 1..Len(Successes)}}

\* C12: at the end of a crawl all_emails and all_phones are the whole unions of the
\* emails and of the phones found on the pages that were fetched, however many they
\* are, and all_social_media maps each platform found on some page, and no other, to
\* the union of that platform's links over those pages.
C12_AggregatesAreUnions ==
  Returned =>
    /\ results.all_emails = UNION {Successes[k].emails : k \in 1..Len(Successes)}
    /\ results.all_phones = UNION {Successes[k].phones : k \in 1..Len(Successes)}
    /\ DOMAIN results.all_social_media = Platforms
    /\ \A platform \in Platforms :
          results.all_social_media[platform] =
            UNION {Successes[k].social_media[platform] :
                     k \in {j \in 1..Len(Successes) :
                              platform \in DOMAIN Successes[j].social_media}}

\* C12's case: a crawl of three pages, two of which share an email and a twitter
\* link, another without signals, that returns more than 10 emails.
C12_Witness ==
  /\ Returned
  /\ Len(Successes) = 3
  /\ \E a, b, c \in 1..3 :
        /\ a < b
        /\ Successes[a].emails \cap Successes[b].emails # {}
        /\ Successes[a].emails # Successes[b].emails
        /\ "twitter" \in DOMAIN Successes[a].social_media
        /\ "twitter" \in DOMAIN Successes[b].social_media
        /\ ~(Successes[b].social_media.twitter \subseteq Successes[a].social_media.twitter)
        /\ ~(Successes[a].social_media.twitter \subseteq Successes[b].social_media.twitter)
        /\ Successes[c].emails = {}
  /\ Cardinality(results.all_emails) > 10

(***************************************************************************)
(* The crawl as it runs: scrape_website is sequential code, so an          *)
(* iteration that can be taken is taken, and the return follows the loop.  *)
(* fetch_page returns (the request has a timeout) and time.sleep returns.  *)
(* What is found on a page has no part in the control of the loop: the     *)
(* sites are those of Spec without signals, and a scraper of 5 pages       *)
(* crawls a site whose pages link to another host only.                    *)
(***************************************************************************)
\* the pages without any link to their own host
OffSiteOnly ==
  {html \in fetch_page :
     \A i \in 1..Len(html.anchors) :
        startswith(html.anchors[i].href, HTTP \o <<":", "/", "/", "b", "/">>)}

\* the pages on which the extractors find nothing, with any links, and the failure
NoSignals == {html \in fetch_page : html.emails = {} /\ html.addresses = <<>>}

InitTerminate ==
  /\ CrawlIdle /\ WorkersIdle /\ NormalizeIdle /\ DiscoverIdle /\ DedupIdle
  /\ ProgressIdle /\ PhonesIdle
  /\ \/ ConstructorInit /\ site = NoSignals
     \/ /\ max_pages = 5
        /\ max_depth \in 0..MaxDepthBound
        /\ visited_urls = {}
        /\ lock = "free"
        /\ site = OffSiteOnly

\* the next step of a call of scrape_website that has not returned
Running == LoopSkip \/ LoopScrape \/ ScrapeWebsiteReturn

SpecTerminate == InitTerminate /\ [][Next]_vars /\ WF_vars(Running)

\* C13: every crawl that entered the loop returns, whatever the pages link to and
\* whichever fetches fail, because every iteration either claims one more URL of a
\* budget of max_pages or shortens the frontier; and the crawl of a site whose pages
\* have no link to their own host, max_pages = 5 included, returns pages_scraped = 1.
C13_CrawlTerminates ==
  /\ (pc = "loop") ~> (pc = "done")
  /\ [][(pc = "loop" /\ pc' = "loop") =>
          \/ Cardinality(visited_urls') > Cardinality(visited_urls)
          \/ /\ visited_urls' = visited_urls
             /\ Len(pages_queue') < Len(pages_queue)]_vars
  /\ []((Returned /\ site = OffSiteOnly) => results.pages_scraped = 1)

\* C13's case: a scraper of 5 pages returned from a seed that was fetched and links
\* to another host only.
C13_Witness ==
  /\ Returned
  /\ max_pages = 5
  /\ site = OffSiteOnly
  /\ Len(Successes) = 1
  /\ results.pages_scraped = 1

\* C14: max_depth_reached of the result is the greatest depth among the entries of
\* pages_details, and 0 when pages_details is empty.
C14_MaxDepthReached ==
  Returned =>
    IF results.pages_details = <<>>
    THEN results.max_depth_reached = 0
    ELSE /\ \E i \in 1..Len(results.pages_details) :
              results.pages_details[i].depth = results.max_depth_reached
         /\ \A i \in 1..Len(results.pages_details) :
              results.pages_details[i].depth <= results.max_depth_reached

\* C14's case: a crawl returned with pages of depth 0, 1 and 2 in pages_details.
C14_Witness ==
  /\ Returned
  /\ results.max_depth_reached = 2
  /\ {results.pages_details[i].depth : i \in 1..Len(results.pages_details)} = {0, 1, 2}

\* the step is an iteration of the loop of scrape_website
Iteration == pc = "loop" /\ pc' = "loop"

\* the dequeue of the entry at the head of the frontier, in the history
DequeueEvent ==
  [op |-> "dequeue", url |-> Head(pages_queue).url, depth |-> Head(pages_queue).depth]

\* C15, as stated: whenever an entry is dequeued its NormalizedURL is not in the
\* visited set.
C15_NeverVisitedAtDequeue ==
  [][Iteration => normalize_url(Head(pages_queue).url) \notin visited_urls]_vars

\* C15, amended: an entry is never in the visited set when it is enqueued, but it
\* can be when it is dequeued (another entry of the same NormalizedURL was processed
\* in between); such an entry is dropped with no callback, claim, fetch, aggregation
\* or sleep, and every other dequeued entry is claimed.
C15_VisitedAtDequeueIsSkipped ==
  [][Iteration =>
      /\ IF normalize_url(Head(pages_queue).url) \in visited_urls
         THEN /\ visited_urls' = visited_urls
              /\ pages_queue' = Tail(pages_queue)
              /\ events' = Append(events, DequeueEvent)
              /\ UNCHANGED <<all_emails, all_phones, all_addresses, all_social_media,
                             pages_details>>
         ELSE visited_urls' = visited_urls \cup {normalize_url(Head(pages_queue).url)}
      /\ \A i \in Len(pages_queue)..Len(pages_queue') :
            normalize_url(pages_queue'[i].url) \notin visited_urls']_vars

\* C15's case: two entries whose URLs differ in case and trailing slash only were
\* dequeued, and the second was dropped.
C15_Witness ==
  \E i, j \in 1..Len(events) :
     /\ i < j
     /\ events[i].op = "dequeue" /\ events[j].op = "dequeue"
     /\ events[i].url # events[j].url
     /\ lower(events[j].url) \o <<"/">> = lower(events[i].url)
     /\ events[i + 1].op # "dequeue"
     /\ j = Len(events) \/ events[j + 1].op = "dequeue"

\* the positions of the claims in events
Claims == {i \in 1..Len(events) : events[i].op = "claim"}

\* C16: in a crawl each NormalizedURL is claimed once; the visited set holds the
\* claimed URLs and no other (nothing is claimed when it is discovered or enqueued);
\* a claim comes right after the dequeue of its entry (and the callback, if any) and
\* is followed at once by the fetch of that entry's URL; every fetch comes right after
\* its claim; no NormalizedURL is fetched twice.
C16_ClaimedOnceAtDequeue ==
  /\ \A i, j \in Claims : events[i].url = events[j].url => i = j
  /\ pc # "idle" => visited_urls = {events[i].url : i \in Claims}
  /\ \A i \in Claims :
       /\ i < Len(events)
       /\ events[i + 1].op = "fetch"
       /\ normalize_url(events[i + 1].url) = events[i].url
       /\ \E d \in {i - 1, i - 2} :
             /\ d >= 1
             /\ events[d].op = "dequeue"
             /\ events[d].url = events[i + 1].url
             /\ \A k \in (d + 1)..(i - 1) : events[k].op = "progress"
  /\ \A i \in Fetches : i - 1 \in Claims
  /\ \A i, j \in Fetches :
       normalize_url(events[i].url) = normalize_url(events[j].url) => i = j

\* C16's case: two URLs were claimed and fetched, and the frontier holds an entry
\* that was discovered and is not claimed.
C16_Witness ==
  /\ pc = "loop"
  /\ Cardinality(Claims) = 2
  /\ \E i \in 1..Len(pages_queue) : normalize_url(pages_queue[i].url) \notin visited_urls

(***************************************************************************)
(* The progress callback.  The crawls of the model have few pages; the     *)
(* percent of line 353 is also computed alone, for a scraper of up to      *)
(* MaxProgressPages pages stopped at line 352 of an iteration, with any    *)
(* number of URLs claimed that the while condition allows.                 *)
(***************************************************************************)
\* n normalized URLs
ClaimedUrls(n) == {SEED \o [i \in 1..k |-> "p"] : k \in 1..n}

InitProgress ==
  /\ WorkersIdle /\ NormalizeIdle /\ DiscoverIdle /\ DedupIdle /\ ProgressIdle /\ PhonesIdle
  /\ \/ ConstructorInit /\ CrawlIdle /\ site = NoSignals
     \/ /\ max_pages \in 1..MaxProgressPages
        /\ max_depth = MaxDepthBound
        /\ lock = "free"
        /\ visited_urls \in {ClaimedUrls(n) : n \in 0..(max_pages - 1)}
        /\ pc = "callback"
        /\ start_url = SEED
        /\ progress_callback = TRUE
        /\ pages_queue = <<>>
        /\ all_emails = {}
        /\ all_phones = {}
        /\ all_addresses = <<>>
        /\ all_social_media = NoDict
        /\ pages_details = <<>>
        /\ results = NoDict
        /\ events = <<>>
        /\ site = {}

\* progress = min(95, (len(self.visited_urls) / self.max_pages) * 100)
ProgressCall ==
  /\ pc = "callback"
  /\ pr_out = NoDict
  /\ pr_out' = progress(visited_urls)
  /\ UNCHANGED <<instance_vars, crawl_vars, workers, normalize_vars, discover_vars,
                 dedup_vars, site, phones_vars>>

NextProgress == Next \/ ProgressCall

SpecProgress == InitProgress /\ [][NextProgress]_vars

\* the positions of the callbacks in events
Callbacks == {i \in 1..Len(events) : events[i].op = "progress"}

\* the percent p is min(95, n / max_pages * 100)
IsPercent(p, n) ==
  /\ p.den = max_pages
  /\ p.num = IF n * 100 < 95 * max_pages THEN n * 100 ELSE 95 * max_pages

\* C17, as stated: the steps of an entry are claim, callback, fetch, and the percent
\* counts the URL just claimed, so that it is never 0.
C17_ClaimThenCallback ==
  \A i \in Callbacks :
     /\ i - 1 \in Claims
     /\ i + 1 \in Fetches
     /\ IsPercent(events[i].percent, Cardinality({c \in Claims : c < i}))
     /\ events[i].percent.num > 0

\* C17, amended: the steps of an entry are callback, claim, fetch; the percent is
\* min(95, n / max_pages * 100) where n counts the URLs claimed before this entry,
\* the entry's own URL not included, so the first callback of a crawl reports 0; the
\* percent is never above 95.
C17_CallbackThenClaim ==
  /\ \A i \in Callbacks :
       /\ events[i - 1].op = "dequeue" /\ events[i - 1].url = events[i].url
       /\ i + 1 \in Claims
       /\ i + 2 \in Fetches /\ events[i + 2].url = events[i].url
       /\ IsPercent(events[i].percent, Cardinality({c \in Claims : c < i}))
       /\ (\A j \in Callbacks : i <= j) => events[i].percent.num = 0
       /\ events[i].percent.num <= 95 * events[i].percent.den
  /\ pr_out # NoDict =>
       /\ IsPercent(pr_out, Cardinality(visited_urls))
       /\ pr_out.num <= 95 * pr_out.den

\* C17's case: a crawl made its third callback, which reported two pages of three.
C17_Witness ==
  /\ Cardinality(Callbacks) = 3
  /\ \E i \in Callbacks : events[i].percent = [num |-> 200, den |-> 3]

\* the URL has the host of the seed
OnSeedHost(url) == urlparse(url, <<>>).netloc = urlparse(start_url, <<>>).netloc

\* C18: during a crawl every URL on the frontier, every URL dequeued or fetched and
\* every URL claimed has the host of the seed URL, at every depth.
C18_StaysOnSeedHost ==
  pc \in {"loop", "done"} =>
    /\ \A i \in 1..Len(pages_queue) : OnSeedHost(pages_queue[i].url)
    /\ \A i \in 1..Len(events) :
          events[i].op \in {"dequeue", "fetch", "claim"} => OnSeedHost(events[i].url)
    /\ \A url \in visited_urls : OnSeedHost(url)

\* C18's case: three pages were fetched, one of them two hops from the seed.
C18_Witness ==
  /\ \E i \in 1..Len(events) : events[i].op = "dequeue" /\ events[i].depth = 2
                                 /\ i + 1 <= Len(events) /\ events[i + 1].op # "dequeue"
  /\ Cardinality(Fetches) >= 3
  /\ \A i \in Fetches : OnSeedHost(events[i].url)

(***************************************************************************)
(* find_subpages explored alone on the seed page, with the kinds of href   *)
(* the filter of is_valid_subpage tells apart.                             *)
(***************************************************************************)
FilterHrefs ==
  { <<"/", "a", "b", "o", "u", "t", "#", "t", "e", "a", "m">>,
    <<"/", "p", "/", "#", "t">>,
    <<"#">>,
    <<"#", "t">>,
    MAILTO \o <<":", "x", "@", "a">>,
    <<"t", "e", "l", ":", "1">>,
    <<"/", "f", ".", "p", "d", "f">>,
    <<"/", "p">>,
    HTTP \o <<":", "/", "/", "b", "/", "p">>,
    <<"/", "q">> }

FilterSoups == UNION {[1..k -> [href : FilterHrefs, text : {Blog}]] : k \in 0..MaxAnchors}

InitFilter ==
  /\ CrawlIdle /\ WorkersIdle /\ NormalizeIdle /\ DedupIdle /\ NoSite /\ ProgressIdle /\ PhonesIdle
  /\ lock = "free"
  /\ max_pages \in 1..MaxPagesBound
  /\ max_depth = 1
  /\ \E soup \in FilterSoups :
        fs_args = [soup |-> soup, base_url |-> SEED, depth |-> 0]
  /\ visited_urls \in {{normalize_url(SEED)}, {normalize_url(SEED), PageP}}
  /\ Cardinality(visited_urls) <= max_pages
  /\ fs_called = FALSE
  /\ fs_out = <<>>

SpecFilter == InitFilter /\ [][NextDiscover]_vars

\* the href is a path of the page's host followed by a non-empty fragment
PathWithFragment(href) ==
  /\ Len(href) >= 3
  /\ href[1] = "/"
  /\ \E i \in 2..(Len(href) - 1) : href[i] = "#"

\* find_subpages returned a URL that is full_url up to normalisation
Returns(full_url) ==
  \E k \in 1..Len(fs_out) : normalize_url(fs_out[k].url) = normalize_url(full_url)

\* C19: when the budget leaves room for every anchor of the page, an anchor whose
\* href is a path of the page's host with a non-empty fragment, and whose
\* fragment-stripped NormalizedURL is not visited, is among the links find_subpages
\* returns.
C19_FragmentLinkKept ==
  (fs_called /\ Len(fs_args.soup) <= max_pages - Cardinality(visited_urls)) =>
    \A i \in 1..Len(fs_args.soup) :
       (/\ PathWithFragment(fs_args.soup[i].href)
        /\ normalize_url(urljoin(fs_args.base_url, fs_args.soup[i].href)) \notin visited_urls)
         => Returns(urljoin(fs_args.base_url, fs_args.soup[i].href))

(***************************************************************************)
(* normalize_url applied to a URL and to a variant of it (another letter   *)
(* case, one trailing slash more or less, another fragment), next to the   *)
(* crawl, where the variants of one page are dequeued one after another.   *)
(***************************************************************************)
\* the URL up to its first "#"
Fragmentless(url) == IF Find(url, "#") > 0 THEN SubSeq(url, 1, Find(url, "#") - 1) ELSE url

\* the URL from its first "#" on
Fragment(url) == SubSeq(url, Len(Fragmentless(url)) + 1, Len(url))

\* the URLs that differ from url only in letter case, in one trailing slash before
\* the fragment, or in the fragment
Variants(url) ==
  LET SlashVariants(u) ==
        {u, u \o <<"/">>} \cup (IF endswith(u, <<"/">>) THEN {strip_slash(u)} ELSE {})
      FragmentVariants == {<<>>, <<"#", "p">>, Fragment(url)}
      CaseVariants(u) == {u, lower(u)}
  IN  UNION { CaseVariants(b \o f) : b \in SlashVariants(Fragmentless(url)),
                                     f \in FragmentVariants }

InitVariants ==
  /\ WorkersIdle /\ DiscoverIdle /\ DedupIdle /\ ProgressIdle /\ PhonesIdle
  /\ \/ ConstructorInit /\ CrawlIdle /\ NormalizeIdle /\ site = NoSignals
     \/ /\ InstanceIdle
        /\ pc = "normalize"
        /\ start_url = <<>>
        /\ progress_callback = FALSE
        /\ pages_queue = <<>>
        /\ all_emails = {}
        /\ all_phones = {}
        /\ all_addresses = <<>>
        /\ all_social_media = NoDict
        /\ pages_details = <<>>
        /\ results = NoDict
        /\ events = <<>>
        /\ nu_url \in NormInputs
        /\ nu_out = <<>>
        /\ site = {}

\* normalized_url = self.normalize_url(url): for the URL first, then for a variant
NormalizeVariantCall ==
  /\ pc = "normalize"
  /\ Len(nu_out) < 2
  /\ \E url \in (IF nu_out = <<>> THEN {nu_url} ELSE Variants(nu_url)) :
        /\ nu_out' = Append(nu_out, normalize_url(url))
        /\ events' = Append(events, [op |-> "normalize", url |-> url])
  /\ UNCHANGED <<instance_vars, pc, start_url, progress_callback, pages_queue, all_emails,
                 all_phones, all_addresses, all_social_media, pages_details, results,
                 workers, nu_url, discover_vars, dedup_vars, site, pr_out, phones_vars>>

NextVariants == Next \/ NormalizeVariantCall

SpecVariants == InitVariants /\ [][NextVariants]_vars

Dequeues == {i \in 1..Len(events) : events[i].op = "dequeue"}

\* in a crawl, of the dequeued URLs that have one NormalizedURL at most one is
\* claimed and fetched
VariantsFetchedOnce ==
  \A i, j \in Dequeues :
     (i # j /\ normalize_url(events[i].url) = normalize_url(events[j].url)) =>
       /\ Cardinality({k \in Claims : events[k].url = normalize_url(events[i].url)}) <= 1
       /\ Cardinality({k \in Fetches : events[k].url \in {events[i].url, events[j].url}}) <= 1

\* one of the two URLs is the other with a slash more, after a slash
SlashAfterSlash(u, v) ==
  LET a == Fragmentless(u)
      b == Fragmentless(v)
  IN  \/ Len(a) < Len(b) /\ endswith(a, <<"/">>)
      \/ Len(b) < Len(a) /\ endswith(b, <<"/">>)

C21_SkipHasNoOtherEffect ==
  [][(/\ pc = "loop"
      /\ LoopGuard
      /\ normalize_url(Head(pages_queue).url) \in visited_urls)
       => /\ pc' = "loop"
          /\ pages_queue' = Tail(pages_queue)
          /\ events' = Append(events, [op    |-> "dequeue",
                                       url   |-> Head(pages_queue).url,
                                       depth |-> Head(pages_queue).depth])
          /\ UNCHANGED <<visited_urls, all_emails, all_phones, all_addresses,
                         all_social_media, pages_details, results>>]_vars

\* C21's case: a crawl with a progress callback that had scraped two pages
\* dequeued, last of all, an entry whose NormalizedURL was claimed before.
C21_Witness ==
  /\ progress_callback
  /\ Len(pages_details) = 2
  /\ events # <<>>
  /\ events[Len(events)].op = "dequeue"
  /\ \E k \in Claims : events[k].url = normalize_url(events[Len(events)].url)

(***************************************************************************)
(* A second call of scrape_website on a scraper that has crawled already:  *)
(* the state a crawl of http://a/ and http://a/p, both with signals,       *)
(* returned in, and every call from there.                                 *)
(***************************************************************************)
\* the page fetched for http://a/ in the first crawl: one link, to /p
FirstSeedPage ==
  [empty |-> FALSE, anchors |-> AnchorsAt({2}), emails |-> {"jane@a.com"},
   phones |-> {"(415) 555-2671"}, addresses |-> <<Addr1>>,
   social_media |-> [twitter |-> {"twitter.com/acme", "twitter.com/jane"}]]

\* the page fetched for http://a/p in the first crawl: no link
FirstSubPage == [FirstSeedPage EXCEPT !.anchors = <<>>]

InitRerun ==
  /\ WorkersIdle /\ NormalizeIdle /\ DiscoverIdle /\ DedupIdle /\ ProgressIdle /\ PhonesIdle
  /\ site = fetch_page
  /\ max_pages \in 2..MaxPagesBound
  /\ max_depth = 1
  /\ lock = "free"
  /\ visited_urls = {normalize_url(SEED), PageP}
  /\ pc = "done"
  /\ start_url = SEED
  /\ progress_callback = FALSE
  /\ pages_queue = <<>>
  /\ all_emails = FirstSeedPage.emails
  /\ all_phones = FirstSeedPage.phones
  /\ all_addresses = <<Addr1, Addr1>>
  /\ all_social_media = FirstSeedPage.social_media
  /\ pages_details =
       << [url |-> SEED, depth |-> 0, emails_found |-> 1, phones_found |-> 1,
           addresses_found |-> 1],
          [url |-> PageP, depth |-> 1, emails_found |-> 1, phones_found |-> 1,
           addresses_found |-> 1] >>
  /\ events =
       << [op |-> "dequeue", url |-> SEED, depth |-> 0],
          [op |-> "claim", url |-> normalize_url(SEED)],
          fetch_event(SEED, FirstSeedPage),
          [op |-> "sleep"],
          [op |-> "dequeue", url |-> PageP, depth |-> 1],
          [op |-> "claim", url |-> PageP],
          fetch_event(PageP, FirstSubPage),
          [op |-> "sleep"] >>
  /\ results =
       [start_url         |-> start_url,
        pages_scraped     |-> 2,
        max_depth_reached |-> 1,
        all_emails        |-> all_emails,
        all_phones        |-> all_phones,
        all_addresses     |-> <<Addr1>>,
        all_social_media  |-> all_social_media,
        pages_details     |-> pages_details,
        visited_urls      |-> visited_urls]

SpecRerun == InitRerun /\ [][Next]_vars

\* C22: between the start and the return of scrape_website no URL leaves the visited
\* set; every call of scrape_website, also one on a scraper that crawled before,
\* empties the visited set, and a call with a valid URL starts with empty aggregates,
\* no page details and a frontier that holds the seed alone; and what a crawl
\* returns is made of the claims and fetches of that crawl only.
C22_VisitedGrowsAndIsResetAtStart ==
  /\ [][(pc = "loop") => visited_urls \subseteq visited_urls']_vars
  /\ [][(pc # "loop") => visited_urls' = {}]_vars
  /\ [][(pc # "loop" /\ pc' = "loop") =>
          /\ pages_queue' = << [url |-> start_url', depth |-> 0] >>
          /\ all_emails' = {} /\ all_phones' = {} /\ all_addresses' = <<>>
          /\ all_social_media' = NoDict /\ pages_details' = <<>>]_vars
  /\ [](Returned =>
          /\ results.visited_urls = {events[k].url : k \in Claims}
          /\ results.all_emails = UNION {events[k].emails : k \in Fetches}
          /\ results.all_phones = UNION {events[k].phones : k \in Fetches}
          /\ Len(results.pages_details) = Cardinality({k \in Fetches : events[k].ok}))

\* C22's case: a second crawl on the scraper, of a site that now has no signals,
\* fetched http://a/p again and returned two pages and no e-mail address.
C22_Witness ==
  /\ Returned
  /\ results.pages_scraped = 2
  /\ results.all_emails = {}
  /\ \E k \in Fetches : events[k].url = PageP /\ events[k].ok

(***************************************************************************)
(* The crawl of a site whose pages can hold markup BeautifulSoup rejects:  *)
(* line 292 is in no try block, in scrape_single_page or in its caller.    *)
(***************************************************************************)
InitParse ==
  /\ ConstructorInit /\ CrawlIdle /\ WorkersIdle /\ NormalizeIdle /\ DiscoverIdle /\ DedupIdle
  /\ ProgressIdle /\ PhonesIdle
  /\ site = NoSignals

\* one iteration in which fetch_page returns content and BeautifulSoup(html,
\* 'html.parser') raises: the exception leaves scrape_single_page and scrape_website
LoopParseError ==
  /\ pc = "loop"
  /\ LoopGuard
  /\ ~already_visited(Head(pages_queue).url, visited_urls)
  /\ \E html \in site :
        /\ ~html.empty
        /\ events' = BeforeScrape(Head(pages_queue))
                       \o << [op |-> "claim", url |-> normalize_url(Head(pages_queue).url)],
                             fetch_event(Head(pages_queue).url, html),
                             [op |-> "raise", url |-> Head(pages_queue).url] >>
  /\ visited_urls' = claim(normalize_url(Head(pages_queue).url), visited_urls).visited
  /\ pages_queue' = Tail(pages_queue)
  /\ pc' = "raised"
  /\ UNCHANGED <<max_pages, max_depth, lock, start_url, progress_callback, all_emails,
                 all_phones, all_addresses, all_social_media, pages_details, results,
                 workers, unit_vars, site>>

NextParse == Next \/ LoopParseError

SpecParse == InitParse /\ [][NextParse]_vars

\* C23: a page whose content the parser rejects is handled like a page that could
\* not be fetched: scrape_website is not aborted (it goes on with the next frontier
\* entry or returns its result), the page's URL stays in the visited set, and the
\* page leaves no entry in pages_details.
C23_ParseFailureIsAbsorbed ==
  \A i \in 1..Len(events) :
     events[i].op = "raise" =>
       /\ pc \in {"loop", "done"}
       /\ pc = "done" => "pages_scraped" \in DOMAIN results
       /\ normalize_url(events[i].url) \in visited_urls
       /\ \A k \in 1..Len(pages_details) : pages_details[k].url # events[i].url

(***************************************************************************)
(* extract_phones explored alone, on the matches of the phone pattern in a *)
(* text: ten digits, written with separators or without.                   *)
(***************************************************************************)
Digit == [c \in {"0", "1", "2", "3", "4", "5", "6", "7", "8", "9"} |->
            CASE c = "0" -> 0 [] c = "1" -> 1 [] c = "2" -> 2 [] c = "3" -> 3 [] c = "4" -> 4
              [] c = "5" -> 5 [] c = "6" -> 6 [] c = "7" -> 7 [] c = "8" -> 8 [] c = "9" -> 9]

\* re.search(r'19\d{2}|20[0-1]\d', phone)
date_like(phone) ==
  \E i \in 1..(Len(phone) - 3) :
     \/ /\ phone[i] = "1" /\ phone[i + 1] = "9"
        /\ phone[i + 2] \in DOMAIN Digit /\ phone[i + 3] \in DOMAIN Digit
     \/ /\ phone[i] = "2" /\ phone[i + 1] = "0"
        /\ phone[i + 2] \in {"0", "1"} /\ phone[i + 3] \in DOMAIN Digit

\* phone.strip()
strip(phone) ==
  LET inner == {i \in 1..Len(phone) : phone[i] # " "}
  IN  IF inner = {} THEN <<>>
      ELSE SubSeq(phone, CHOOSE i \in inner : \A j \in inner : i <= j,
                         CHOOSE i \in inner : \A j \in inner : j <= i)

extract_phones(phones) == {strip(phone) : phone \in {m \in phones : ~date_like(m)}}

\* self.patterns['phone'].findall(text): (415) 555-dddd and 415519dddd
PhoneMatches ==
  { prefix \o last : prefix \in { <<"(", "4", "1", "5", ")", " ", "5", "5", "5", "-">>,
                                  <<"4", "1", "5", "5", "1", "9">> },
                     last \in [1..4 -> {"0", "1", "2", "3", "9"}] }

Phone2671 == <<"(", "4", "1", "5", ")", " ", "5", "5", "5", "-", "2", "6", "7", "1">>

InitPhones ==
  /\ InstanceIdle /\ CrawlIdle /\ WorkersIdle /\ NormalizeIdle /\ DiscoverIdle /\ DedupIdle
  /\ NoSite /\ ProgressIdle
  /\ ep_in \in {{m} : m \in PhoneMatches} \cup {{m, Phone2671} : m \in PhoneMatches}
  /\ ep_out = <<>>

ExtractPhonesCall ==
  /\ ep_in # {}
  /\ ep_out = <<>>
  /\ ep_out' = <<extract_phones(ep_in)>>
  /\ UNCHANGED <<instance_vars, crawl_vars, workers, normalize_vars, discover_vars, dedup_vars,
                 site, pr_out, ep_in>>

NextPhones == ExtractPhonesCall

SpecPhones == InitPhones /\ [][NextPhones]_vars

\* the numbers of four consecutive digits in the match
Years(phone) ==
  { 1000 * Digit[phone[i]] + 100 * Digit[phone[i + 1]] + 10 * Digit[phone[i + 2]]
      + Digit[phone[i + 3]] :
      i \in {k \in 1..(Len(phone) - 3) : \A d \in 0..3 : phone[k + d] \in DOMAIN Digit} }

\* C24: extract_phones returns the matches none of whose runs of four consecutive
\* digits is a number in 1900..2029, and drops the matches that have such a run.
C24_DropsYears1900To2029 ==
  ep_out # <<>> => ep_out[1] = {strip(m) : m \in {n \in ep_in : Years(n) \cap (1900..2029) = {}}}

(***************************************************************************)
(* The budget of the frontier.                                             *)
(***************************************************************************)
\* C25: in every state of the crawl loop the frontier and the visited set together
\* hold at most max_pages entries; so while the frontier is not empty the visited
\* set is below max_pages, and a crawl returns with an empty frontier.
C25_FrontierWithinBudget ==
  pc \in {"loop", "done"} =>
    /\ Len(pages_queue) + Cardinality(visited_urls) <= max_pages
    /\ pages_queue # <<>> => Cardinality(visited_urls) < max_pages
    /\ pc = "done" => pages_queue = <<>>

\* C25's case: two pages were scraped, entries they linked to wait in the frontier,
\* and the frontier and the visited set together use up the budget.
C25_Witness ==
  /\ pc = "loop"
  /\ pages_queue # <<>>
  /\ Len(pages_details) = 2
  /\ pages_queue[Len(pages_queue)].depth = 2
  /\ Len(pages_queue) + Cardinality(visited_urls) = max_pages

(***************************************************************************)
(* The order of the crawl, with a budget that lets the frontier hold       *)
(* entries of two depths at once.                                          *)
(***************************************************************************)
InitBreadth ==
  /\ CrawlIdle /\ WorkersIdle /\ NormalizeIdle /\ DiscoverIdle /\ DedupIdle
  /\ ProgressIdle /\ PhonesIdle
  /\ max_pages = MaxPagesBound + 1
  /\ max_depth \in 1..MaxDepthBound
  /\ visited_urls = {}
  /\ lock = "free"
  /\ site = NoSignals

SpecBreadth == InitBreadth /\ [][Next]_vars

\* C26: the depths of the frontier's entries never decrease from its head to its
\* tail, the depths of the pages_details entries never decrease in list order, and
\* no entry waiting in the frontier is less deep than an entry dequeued before.
C26_BreadthFirst ==
  pc \in {"loop", "done"} =>
    /\ \A i, j \in 1..Len(pages_queue) :
          i < j => pages_queue[i].depth <= pages_queue[j].depth
    /\ \A i, j \in 1..Len(pages_details) :
          i < j => pages_details[i].depth <= pages_details[j].depth
    /\ \A i \in Dequeues, j \in 1..Len(pages_queue) :
          events[i].depth <= pages_queue[j].depth

\* C26's case: the seed and a page of depth 1 were scraped, and the frontier holds
\* an entry of depth 1 before an entry of depth 2.
C26_Witness ==
  /\ pc = "loop"
  /\ Len(pages_details) = 2
  /\ pages_details[2].depth = 1
  /\ Len(pages_queue) >= 2
  /\ pages_queue[1].depth = 1
  /\ pages_queue[Len(pages_queue)].depth = 2

====
